---- MODULE Spec2Model ----
(***************************************************************************)
(* A model of src/src/api/chat.js: the session-page pool, the cached       *)
(* authorization token, the request pipeline sendMessage / createChatV2,   *)
(* the task poller pollTaskStatus and the failure orchestrator             *)
(* handleApiError.  Every `await` of the source is a suspend point: one    *)
(* action is the code that runs between two awaits of one request.         *)
(***************************************************************************)
EXTENDS Integers, Sequences, FiniteSets, TLC

\* ------------------------------------------------------------------ bounds
\* config.js is not among the sources; these are its values, kept small.
MAX_RETRY_COUNT == 2
PAGE_POOL_SIZE == 1
TASK_POLL_MAX_ATTEMPTS == 2
\* size of the account list, last hour of the clock, number of page objects
NumAccounts == 3
MaxNow == 2
MaxPages == 3
\* largest maxAttempts a direct pollTaskStatus call is given
MaxPollArg == 3
\* most data frames in one streamed response
MaxFrames == 3

\* `null` (chat.js:24, 512) and the default reset time `|| 24` (chat.js:457)
NULL == 0
DEFAULT_HOURS == 24

Reqs == {"r1", "r2"}
Accounts == 1..NumAccounts
BROWSER == NumAccounts + 1            \* the id 'browser' and the browser's own token
PageIds == 1..MaxPages
CtxPage == 1                          \* the page that a page-shaped context is

\* ------------------------------------------------------------------ state
VARIABLES
    authToken,    \* chat.js:24  the cached token (NULL, an account's token, BROWSER)
    pages,        \* chat.js:42  pagePool.pages, the idle handles
    pageSt,       \* every page object: "free" (not constructed), "new", "ready", "closed"
    ctxShape,     \* what getBrowserContext() returns: "context" (has newPage) or "page" (has goto)
    browserUp,    \* getBrowserContext() is not null
    authStatus,   \* getAuthenticationStatus()
    acct,         \* tokenManager's accounts: [invalid, until]
    now,          \* the clock, in hours
    exited,       \* process.exit(1) was called
    rq            \* the requests: position and locals of each call

vars == <<authToken, pages, pageSt, ctxShape, browserUp, authStatus, acct, now, exited, rq>>
shared == <<authToken, pages, pageSt, ctxShape, browserUp, authStatus, acct, now, exited>>

\* ------------------------------------------------------------------ values
\* The identifiers a task-creation body may hold (chat.js:629-633, 562), NULL when absent:
\* data.messages[0].extra.wanx.task_id, id, task_id, response_id, data.message_id and
\* data.parent_id.  Each field has a value of its own, so a result tells where it came from.
NoData == [wanx |-> NULL, id |-> NULL, task_id |-> NULL, response_id |-> NULL,
           message_id |-> NULL, parent_id |-> NULL]
NoResp == [kind |-> "none", status |-> 0, html |-> FALSE, body |-> {}, json |-> FALSE,
           num |-> 0, data |-> NoData, content |-> "", usable |-> FALSE]
NoResult == [tag |-> "none", error |-> "", status |-> "", content |-> "", details |-> {},
             verification |-> FALSE, chatId |-> FALSE, taskId |-> NULL, parentId |-> NULL,
            token |-> NULL]

\* The locals of the stream reader of executeApiRequest (chat.js:367-373), before it runs:
\* the frames the upstream sends and whether the last one ends in a newline, the symbols
\* read so far, and buffer, fullContent, responseId, usage, finished.
NoStream == [frames |-> <<>>, term |-> TRUE, pos |-> 0, buffer |-> <<>>, fullContent |-> <<>>,
             responseId |-> NULL, usage |-> NULL, finished |-> FALSE]

\* The locals of one call of sendMessage (and of the createChatV2 it makes).
IdleReq == [pc |-> "idle",
            message |-> "text", chatId |-> FALSE, chatType |-> "t2t",
            tools |-> FALSE, toolChoice |-> FALSE, systemMessage |-> FALSE,
            waitForCompletion |-> TRUE, retryCount |-> 0,
            tokenObj |-> NULL, page |-> NULL, newPage |-> NULL, ret |-> "",
            sentTok |-> NULL, resp |-> NoResp,
            attempt |-> 0, maxAttempts |-> 0, checks |-> 0, delays |-> 0, poll |-> "",
            seen |-> "",
            ci |-> 0, cause |-> "",
            stream |-> TRUE, taskId |-> NULL, strm |-> NoStream,
            attempts |-> 0, burnt |-> {},
            forceRefresh |-> FALSE, newToken |-> NULL,
            result |-> NoResult]

Last(s) == s[Len(s)]
Front(s) == SubSeq(s, 1, Len(s) - 1)
InPool(p) == \E i \in 1..Len(pages) : pages[i] = p
Holds(r, p) == p # NULL /\ rq[r].page = p

\* ------------------------------------------------------------------ inputs
Messages == {"text", "null", "nullpart"}   \* a string, null, an array holding a null part
ChatTypes == {"t2t", "t2v"}
AllChatTypes == {"t2t", "t2i", "t2v"}
Markers == {"Verification", "Unauthorized", "Token has expired", "RateLimited"}
OtherText == "Internal Server Error"  \* an error body that holds none of the markers
Statuses == {401, 500}
Nums == {0, 2}                        \* rateInfo.num; 0 stands for missing, zero or not a number

\* What the script of executeApiRequest can return (chat.js:346-419), and "throw" for a
\* page.evaluate that rejects.  No return of the script has an `html` field.
HttpFailures(bodies, nums) ==
    { [NoResp EXCEPT !.kind = "http", !.status = s, !.body = b, !.json = j, !.num = n] :
        s \in Statuses, b \in bodies, j \in BOOLEAN, n \in nums }
ExecFailures(bodies, nums) ==
    { r \in HttpFailures(bodies, nums) : r.json \/ r.num = 0 }
      \cup { [NoResp EXCEPT !.kind = "error"], [NoResp EXCEPT !.kind = "throw"] }
\* buildPayloadV2 (chat.js:283-338): of the payload, the `stream` flag (chat.js:287, 316)
buildPayloadV2_alwaysStream(chatType) == [stream |-> TRUE]
buildPayloadV2(chatType) == [stream |-> chatType # "t2v"]
\* `data.payload.stream === false` (chat.js:362): an ok response is read as one JSON
\* document, a task, and not as a stream
isTask_never(stream) == FALSE
isTask(stream) == ~stream
\* the task-creation bodies of the upstream: every combination of identifiers, and the
\* two that the other specifications use (no identifier, a top-level id)
TaskBodies == [wanx : {NULL, 1}, id : {NULL, 2}, task_id : {NULL, 3}, response_id : {NULL, 4},
               message_id : {NULL, 5}, parent_id : {NULL, 6}]
SomeTaskBodies == {NoData, [NoData EXCEPT !.id = 2]}
TaskResponses(bodies) == { [NoResp EXCEPT !.kind = "task", !.data = d, !.usable = TRUE] : d \in bodies }
ExecSuccesses(chatType) ==
    IF isTask(buildPayloadV2(chatType).stream)
    THEN TaskResponses(SomeTaskBodies)
    ELSE { [NoResp EXCEPT !.kind = "stream", !.content = c, !.usable = TRUE] : c \in {"Paris", ""} }
executeApiRequest(chatType, bodies, nums) ==
    ExecSuccesses(chatType) \cup ExecFailures(bodies, nums)

\* ------------------------------------------------------------------ tokenManager
\* getAvailableToken, markInvalid, markRateLimited, hasValidTokens (tokenManager.js)
usable(a) == ~acct[a].invalid /\ acct[a].until <= now
hasValidTokens == \E a \in Accounts : usable(a)
getAvailableToken == IF hasValidTokens THEN { a \in Accounts : usable(a) } ELSE {NULL}
markInvalid(A, id) == IF id \in Accounts THEN [A EXCEPT ![id].invalid = TRUE] ELSE A
markRateLimited(A, id, hours) ==
    IF id \in Accounts THEN [A EXCEPT ![id].until = now + hours] ELSE A

\* ------------------------------------------------------------------ pages
IsContext == ctxShape = "context"
FreePages == { p \in PageIds : pageSt[p] = "free" }
NewPageId == IF IsContext THEN CHOOSE p \in FreePages : \A q \in FreePages : p <= q
             ELSE CtxPage
CanGetPage == Len(pages) > 0 \/ ~IsContext \/ FreePages # {}

\* A closed page object that nothing refers to any more is forgotten (its id is reused).
Referenced(p, pool, R) ==
    \/ \E i \in 1..Len(pool) : pool[i] = p
    \/ \E r \in Reqs : R[r].page = p \/ R[r].newPage = p
    \/ (~IsContext /\ p = CtxPage)
Collect(S, pool, R) ==
    [p \in PageIds |-> IF S[p] = "closed" /\ ~Referenced(p, pool, R) THEN "free" ELSE S[p]]
close(S, p) == IF p = NULL THEN S ELSE [S EXCEPT ![p] = "closed"]

\* pagePool.getPage up to its first await (chat.js:45-51): an idle handle is popped, or a
\* page is constructed (getPage, chat.js:32-39) and its navigation started.
getPage_rec_alwaysNew(rec, ret) == [rec EXCEPT !.newPage = NewPageId, !.ret = ret, !.pc = "nav"]
getPage_rec(rec, ret) ==
    IF Len(pages) > 0
    THEN [rec EXCEPT !.page = Last(pages), !.pc = ret]
    ELSE [rec EXCEPT !.newPage = NewPageId, !.ret = ret, !.pc = "nav"]
getPage_pages == IF Len(pages) > 0 THEN Front(pages) ELSE pages
getPage_pageSt ==
    IF Len(pages) > 0 \/ ~IsContext THEN pageSt ELSE [pageSt EXCEPT ![NewPageId] = "new"]

\* pagePool.releasePage (chat.js:68-74)
releasePage_pages_unbounded(p) == Append(pages, p)
releasePage_pages(p) == IF Len(pages) < PAGE_POOL_SIZE THEN Append(pages, p) ELSE pages
releasePage_pageSt_never(p) == pageSt
releasePage_pageSt(p) == IF Len(pages) < PAGE_POOL_SIZE THEN pageSt ELSE close(pageSt, p)

\* the finally blocks (chat.js:616-624, 703-711): a page still held is closed when the
\* context is one that creates pages
finally_pageSt_never(rec) == pageSt
finally_pageSt(rec) ==
    IF rec.page # NULL /\ browserUp /\ IsContext THEN close(pageSt, rec.page) ELSE pageSt

\* ------------------------------------------------------------------ results
Err(rec, code) == [NoResult EXCEPT !.tag = "error", !.error = code, !.chatId = rec.chatId]
Finish(rec, res) ==
    [rec EXCEPT !.pc = "done", !.result = res, !.page = NULL, !.newPage = NULL, !.ret = "",
                !.sentTok = NULL, !.resp = NoResp, !.ci = 0, !.cause = "",
                !.stream = TRUE, !.taskId = NULL,
                !.tokenObj = NULL, !.attempt = 0, !.maxAttempts = 0, !.checks = 0,
                !.delays = 0, !.poll = "", !.seen = ""]

\* validateAndPrepareMessage (chat.js:244-259)
\* `item.type` of a null part throws a TypeError (chat.js:250-251)
validateAndPrepareMessage(message) ==
    IF message = "null" THEN "error"
    ELSE IF message = "nullpart" THEN "throw"
    ELSE "content"
\* what a call resolves to when an exception leaves sendMessage: the promise is rejected
Rejected == [NoResult EXCEPT !.tag = "rejected"]

\* sendMessage after the chat exists, up to `await getAvailableToken()` (chat.js:487-509, 262)
afterChat(rec) ==
    IF validateAndPrepareMessage(rec.message) = "throw" THEN Finish(rec, Rejected)
    ELSE IF validateAndPrepareMessage(rec.message) = "error" THEN Finish(rec, Err(rec, "validation"))
    ELSE IF ~browserUp THEN Finish(rec, Err(rec, "browser"))
    ELSE [rec EXCEPT !.pc = "sm_token"]
\* sendMessage from its entry (chat.js:477-485), with createChatV2 up to its first await
\* (chat.js:653-657)
sendMessage(rec) ==
    IF ~rec.chatId
    THEN IF ~browserUp THEN Finish(rec, Err(rec, "create_chat"))
         ELSE [rec EXCEPT !.pc = "cc_token"]
    ELSE afterChat(rec)

\* ------------------------------------------------------------------ initial state
\* The module has just been loaded: no cached token, an empty pool, and the account list
\* as read from storage: usable accounts, or none that is usable (the browser's own login
\* is then the only credential).
Init ==
    /\ authToken = NULL
    /\ pages = <<>>
    /\ ctxShape \in {"context", "page"}
    /\ pageSt = [p \in PageIds |-> IF ctxShape = "page" /\ p = CtxPage THEN "new" ELSE "free"]
    /\ browserUp = TRUE
    /\ authStatus \in BOOLEAN
    /\ acct \in {[a \in Accounts |-> [invalid |-> i, until |-> 0]] : i \in BOOLEAN}
    /\ now = 0
    /\ exited = FALSE
    /\ rq = [r \in Reqs |-> IdleReq]

\* ------------------------------------------------------------------ the request path
\* A caller invokes sendMessage (chat.js:477); retryCount is 0.  Of tools, toolChoice and
\* systemMessage the model keeps whether they were given (TRUE) or are null (FALSE).
Start(r, in) ==
    /\ ~exited /\ rq[r].pc = "idle"
    /\ rq' = [rq EXCEPT ![r] = sendMessage([IdleReq EXCEPT !.message = in.message,
                  !.chatId = in.chatId, !.chatType = in.chatType,
                  !.tools = in.tools, !.toolChoice = in.toolChoice,
                  !.systemMessage = in.systemMessage,
                  !.waitForCompletion = in.waitForCompletion])]
    /\ UNCHANGED shared

\* createChatV2 after `await getAvailableToken()` (chat.js:657-671)
CreateChatToken(r, a) ==
    /\ ~exited /\ rq[r].pc = "cc_token"
    /\ a \in getAvailableToken
    /\ LET tok == IF a # NULL THEN a ELSE authToken IN
       /\ authToken' = tok
       /\ IF tok = NULL
          THEN /\ rq' = [rq EXCEPT ![r].pc = "cc_extract"]
               /\ UNCHANGED <<pages, pageSt>>
          ELSE /\ CanGetPage
               /\ rq' = [rq EXCEPT ![r] = getPage_rec(@, "cc_page")]
               /\ pages' = getPage_pages
               /\ pageSt' = getPage_pageSt
    /\ UNCHANGED <<ctxShape, browserUp, authStatus, acct, now, exited>>

\* createChatV2 after `authToken = await extractAuthToken(...)` (chat.js:665-671); newToken
\* is what extractAuthToken read from the browser (chat.js:155-165), NULL when it found
\* none or failed
CreateChatExtract(r, newToken) ==
    /\ ~exited /\ rq[r].pc = "cc_extract"
    /\ authToken' = newToken
    /\ IF newToken = NULL
       THEN /\ rq' = [rq EXCEPT ![r] = Finish(@, Err(@, "create_chat"))]
            /\ UNCHANGED <<pages, pageSt>>
       ELSE /\ CanGetPage
            /\ rq' = [rq EXCEPT ![r] = getPage_rec(@, "cc_page")]
            /\ pages' = getPage_pages
            /\ pageSt' = getPage_pageSt
    /\ UNCHANGED <<ctxShape, browserUp, authStatus, acct, now, exited>>

\* `await newPage.goto(...)` (chat.js:51) resolves: the navigation went through, on a page
\* that is still open; otherwise it throws and pagePool.getPage returns nothing
gotoResolves_always(ok, st) == TRUE
gotoResolves(ok, st) == ok /\ st # "closed"
\* pagePool.getPage after `await newPage.goto(...)` (chat.js:51-65).  When the navigation
\* throws, the caller's catch returns an error and the new page is referred to by nothing.
Navigate(r, ok) ==
    /\ ~exited /\ rq[r].pc = "nav"
    /\ LET rec == rq[r] IN
       /\ pageSt' = IF ok /\ pageSt[rec.newPage] # "closed"
                    THEN [pageSt EXCEPT ![rec.newPage] = "ready"] ELSE pageSt
       /\ rq' = [rq EXCEPT ![r] =
                   IF gotoResolves(ok, pageSt[rec.newPage])
                   THEN IF authToken = NULL THEN [rec EXCEPT !.pc = "boot"]
                        ELSE [rec EXCEPT !.page = rec.newPage, !.newPage = NULL,
                                         !.pc = rec.ret, !.ret = ""]
                   ELSE Finish(rec, Err(rec, IF rec.ret = "cc_page" THEN "create_chat"
                                             ELSE "exception"))]
    /\ UNCHANGED <<authToken, pages, ctxShape, browserUp, authStatus, acct, now, exited>>

\* pagePool.getPage after `authToken = await newPage.evaluate(...)` (chat.js:53-65); a
\* throwing evaluate is caught and leaves the cached token as it is
Boot(r, tok, thrown) ==
    /\ ~exited /\ rq[r].pc = "boot"
    /\ authToken' = IF thrown THEN authToken ELSE tok
    /\ rq' = [rq EXCEPT ![r] = [@ EXCEPT !.page = rq[r].newPage, !.newPage = NULL,
                                         !.pc = rq[r].ret, !.ret = ""]]
    /\ UNCHANGED <<pages, pageSt, ctxShape, browserUp, authStatus, acct, now, exited>>

\* createChatV2 after `await pagePool.getPage(...)`: the request is sent with the cached
\* token as it is now (chat.js:673-688)
CreateChatSend(r) ==
    /\ ~exited /\ rq[r].pc = "cc_page"
    /\ rq' = [rq EXCEPT ![r] = [@ EXCEPT !.sentTok = authToken, !.pc = "cc_fetch"]]
    /\ UNCHANGED shared

\* createChatV2 after the upstream answered (chat.js:690-711), then sendMessage goes on
\* (chat.js:482-509)
CreateChatResult(r, outcome) ==
    /\ ~exited /\ rq[r].pc = "cc_fetch"
    /\ LET rec == rq[r] IN
       IF outcome = "throw"
       THEN /\ rq' = [rq EXCEPT ![r] = Finish(rec, Err(rec, "create_chat"))]
            /\ pages' = pages
            /\ pageSt' = Collect(finally_pageSt(rec), pages', rq')
       ELSE /\ pages' = releasePage_pages(rec.page)
            /\ rq' = [rq EXCEPT ![r] =
                        LET rel == [rec EXCEPT !.page = NULL, !.sentTok = NULL]
                        IN IF outcome = "ok" THEN afterChat([rel EXCEPT !.chatId = TRUE])
                           ELSE Finish(rel, Err(rel, "create_chat"))]
            /\ pageSt' = Collect(releasePage_pageSt(rec.page), pages', rq')
    /\ UNCHANGED <<authToken, ctxShape, browserUp, authStatus, acct, now, exited>>

\* resolveAuthToken after `await getAvailableToken()` (chat.js:262-280), then sendMessage
\* up to pagePool.getPage (chat.js:509-514)
resolved_noAuthCheck(a) == a # NULL \/ authToken # NULL
resolved(a) == a # NULL \/ (authStatus /\ authToken # NULL)
ResolveToken(r, a) ==
    /\ ~exited /\ rq[r].pc = "sm_token"
    /\ a \in getAvailableToken
    /\ IF resolved(a)
       THEN /\ CanGetPage
            /\ authToken' = IF a # NULL THEN a ELSE authToken
            /\ rq' = [rq EXCEPT ![r] =
                        getPage_rec([@ EXCEPT !.tokenObj = IF a # NULL THEN a ELSE BROWSER],
                                    "sm_verif")]
            /\ pages' = getPage_pages
            /\ pageSt' = getPage_pageSt
       ELSE /\ rq' = [rq EXCEPT ![r].pc = IF ~authStatus THEN "sm_auth" ELSE "sm_extract"]
            /\ UNCHANGED <<authToken, pages, pageSt>>
    /\ UNCHANGED <<ctxShape, browserUp, authStatus, acct, now, exited>>

\* `await getAvailableToken()` or `await checkAuthentication(...)` rejects: the awaits of
\* createChatV2 (chat.js:657) and of resolveAuthToken (chat.js:262, 271, called at 509)
\* are inside no try block, so the call is rejected
AcquireThrows(r) ==
    /\ ~exited /\ rq[r].pc \in {"cc_token", "sm_token", "sm_auth"}
    /\ rq' = [rq EXCEPT ![r] = Finish(@, Rejected)]
    /\ UNCHANGED shared

\* resolveAuthToken after `await checkAuthentication(...)` (chat.js:271-280)
CheckAuth(r, authCheck) ==
    /\ ~exited /\ rq[r].pc = "sm_auth"
    /\ IF ~authCheck
       THEN /\ rq' = [rq EXCEPT ![r] = Finish(@, Err(@, "auth"))]
            /\ UNCHANGED <<pages, pageSt>>
       ELSE IF authToken = NULL
       THEN /\ rq' = [rq EXCEPT ![r].pc = "sm_extract"]
            /\ UNCHANGED <<pages, pageSt>>
       ELSE /\ CanGetPage
            /\ rq' = [rq EXCEPT ![r] = getPage_rec([@ EXCEPT !.tokenObj = BROWSER], "sm_verif")]
            /\ pages' = getPage_pages
            /\ pageSt' = getPage_pageSt
    /\ UNCHANGED <<authToken, ctxShape, browserUp, authStatus, acct, now, exited>>

\* resolveAuthToken after `authToken = await extractAuthToken(...)` (chat.js:277-280)
ResolveExtract(r, newToken) ==
    /\ ~exited /\ rq[r].pc = "sm_extract"
    /\ authToken' = newToken
    /\ IF newToken = NULL
       THEN /\ rq' = [rq EXCEPT ![r] = Finish(@, Err(@, "auth"))]
            /\ UNCHANGED <<pages, pageSt>>
       ELSE /\ CanGetPage
            /\ rq' = [rq EXCEPT ![r] = getPage_rec([@ EXCEPT !.tokenObj = BROWSER], "sm_verif")]
            /\ pages' = getPage_pages
            /\ pageSt' = getPage_pageSt
    /\ UNCHANGED <<ctxShape, browserUp, authStatus, acct, now, exited>>

\* sendMessage after checkVerification and the reload (chat.js:516-535): with a cached
\* token the generation request is sent, without one the page is asked for it
Issue(rec) ==
    [rec EXCEPT !.sentTok = authToken', !.pc = "sm_fetch", !.attempts = @ + 1,
                !.stream = buildPayloadV2(rec.chatType).stream]
SendGenerate(r, thrown) ==
    /\ ~exited /\ rq[r].pc = "sm_verif"
    /\ authToken' = authToken
    /\ LET rec == rq[r] IN
       /\ rq' = [rq EXCEPT ![r] =
                   IF thrown \/ pageSt[rec.page] = "closed" THEN Finish(rec, Err(rec, "exception"))
                   ELSE IF authToken = NULL THEN [rec EXCEPT !.pc = "sm_tokfetch"]
                   ELSE Issue(rec)]
       /\ pageSt' = IF thrown \/ pageSt[rec.page] = "closed"
                    THEN Collect(finally_pageSt(rec), pages, rq') ELSE pageSt
    /\ UNCHANGED <<pages, ctxShape, browserUp, authStatus, acct, now, exited>>

\* sendMessage after `authToken = await page.evaluate(...)` (chat.js:523-535)
FetchPageToken(r, tok) ==
    /\ ~exited /\ rq[r].pc = "sm_tokfetch"
    /\ authToken' = tok
    /\ LET rec == rq[r] IN
       /\ rq' = [rq EXCEPT ![r] =
                   IF tok = NULL THEN Finish(rec, Err(rec, "no_token")) ELSE Issue(rec)]
       /\ pageSt' = IF tok = NULL THEN Collect(finally_pageSt(rec), pages, rq') ELSE pageSt
    /\ UNCHANGED <<pages, ctxShape, browserUp, authStatus, acct, now, exited>>

\* the upstream answers the generation request: what executeApiRequest resolves to
GenResponse(r, resp) ==
    /\ ~exited /\ rq[r].pc = "sm_fetch"
    /\ resp.kind \in {"task", "stream"} => ((resp.kind = "task") <=> isTask(rq[r].stream))
    /\ rq' = [rq EXCEPT ![r] = [@ EXCEPT !.resp = resp, !.pc = "sm_resp"]]
    /\ UNCHANGED shared

\* ------------------------------------------------------------------ task polling
\* taskData.task_status || taskData.status || 'unknown' (chat.js:120); "" is a missing field
StatusStrings == {"", "completed", "success", "failed", "error", "processing"}
taskStatusOf_statusFirst(tick) ==
    IF tick.status # "" THEN tick.status
    ELSE IF tick.task_status # "" THEN tick.task_status ELSE "unknown"
taskStatusOf(tick) ==
    IF tick.task_status # "" THEN tick.task_status
    ELSE IF tick.status # "" THEN tick.status ELSE "unknown"
\* chat.js:123-131
mapStatus_noSuccess(taskStatus) ==
    IF taskStatus = "completed" THEN "completed"
    ELSE IF taskStatus \in {"failed", "error"} THEN "failed"
    ELSE "pending"
mapStatus(taskStatus) ==
    IF taskStatus \in {"completed", "success"} THEN "completed"
    ELSE IF taskStatus \in {"failed", "error"} THEN "failed"
    ELSE "pending"
Ticks ==
    { [kind |-> k, task_status |-> "", status |-> ""] : k \in {"transport", "throw"} }
      \cup { [kind |-> "data", task_status |-> a, status |-> b] :
               a \in StatusStrings, b \in StatusStrings }

\* the loop condition `attempt <= maxAttempts` (chat.js:91)
loopGoesOn_offByOne(attempt, maxAttempts) == attempt <= maxAttempts + 1
loopGoesOn(attempt, maxAttempts) == attempt <= maxAttempts
\* `if (attempt < maxAttempts) await delay(interval)` (chat.js:115, 133, 136)
delayFollows_always(attempt, maxAttempts) == attempt <= maxAttempts
delayFollows(attempt, maxAttempts) == attempt < maxAttempts

\* pollTaskStatus from its entry to the first status check (chat.js:88-111)
pollTaskStatus(rec, page, token, maxAttempts) ==
    LET p == [rec EXCEPT !.sentTok = token, !.page = page, !.maxAttempts = maxAttempts,
                         !.attempt = 1, !.checks = 0, !.delays = 0, !.poll = "", !.seen = ""]
    IN IF loopGoesOn(1, maxAttempts)
       THEN [p EXCEPT !.checks = 1, !.pc = "poll_fetch"]
       ELSE [p EXCEPT !.poll = "timeout", !.pc = "poll_done"]

\* one status check has answered (chat.js:113-137)
PollTick(r, tick) ==
    /\ ~exited /\ rq[r].pc = "poll_fetch"
    /\ LET seen == IF tick.kind = "data" THEN taskStatusOf(tick) ELSE tick.kind
           rec == [rq[r] EXCEPT !.seen = seen]
           st == IF tick.kind = "data" THEN mapStatus(seen) ELSE "pending"
       IN rq' = [rq EXCEPT ![r] =
                   IF st # "pending" THEN [rec EXCEPT !.poll = st, !.pc = "poll_done"]
                   ELSE IF delayFollows(rec.attempt, rec.maxAttempts)
                        THEN [rec EXCEPT !.delays = @ + 1, !.pc = "poll_delay"]
                   ELSE IF loopGoesOn(rec.attempt + 1, rec.maxAttempts)
                        THEN [rec EXCEPT !.attempt = @ + 1, !.checks = @ + 1]
                   ELSE [rec EXCEPT !.poll = "timeout", !.pc = "poll_done"]]
    /\ UNCHANGED shared

\* the delay has passed: the next iteration of the loop (chat.js:91-111, 140-141)
PollDelay(r) ==
    /\ ~exited /\ rq[r].pc = "poll_delay"
    /\ LET rec == rq[r] IN
       rq' = [rq EXCEPT ![r] =
                IF loopGoesOn(rec.attempt + 1, rec.maxAttempts)
                THEN [rec EXCEPT !.attempt = @ + 1, !.checks = @ + 1, !.pc = "poll_fetch",
                                 !.seen = ""]
                ELSE [rec EXCEPT !.poll = "timeout", !.pc = "poll_done"]]
    /\ UNCHANGED shared

\* sendMessage after `await pollTaskStatus(...)` (chat.js:571-598)
\* the result of sendMessage after the poll (chat.js:574-597)
pollResult_noTaskId(rec) ==
    IF rec.poll = "completed"
    THEN [NoResult EXCEPT !.tag = "video", !.chatId = rec.chatId, !.taskId = rec.taskId,
                          !.parentId = rec.taskId]
    ELSE [Err(rec, "video") EXCEPT !.status = rec.poll]
pollResult(rec) ==
    IF rec.poll = "completed"
    THEN [NoResult EXCEPT !.tag = "video", !.chatId = rec.chatId, !.taskId = rec.taskId,
                          !.parentId = rec.taskId]
    ELSE [Err(rec, "video") EXCEPT !.status = rec.poll, !.taskId = rec.taskId]
PollReturn(r) ==
    /\ ~exited /\ rq[r].pc = "poll_done"
    /\ LET rec == rq[r] IN
       /\ pages' = releasePage_pages(rec.page)
       /\ rq' = [rq EXCEPT ![r] = Finish(rec, pollResult(rec))]
       /\ pageSt' = Collect(releasePage_pageSt(rec.page), pages', rq')
    /\ UNCHANGED <<authToken, ctxShape, browserUp, authStatus, acct, now, exited>>

\* a caller invokes pollTaskStatus itself, on a page and with a token of its own
StartPoll(r, page, token, maxAttempts) ==
    /\ ~exited /\ rq[r].pc = "idle"
    /\ rq' = [rq EXCEPT ![r] = pollTaskStatus(@, page, token, maxAttempts)]
    /\ UNCHANGED shared

\* ------------------------------------------------------------------ streamed responses
\* A data frame is one line `data: {...}`: it may carry partial content (delta.content),
\* the completion mark (delta.status === 'finished'), a response id (response.created)
\* and a usage object; 0 stands for a missing response id or usage.
Frame(c, f, i, u) == [content |-> c, fin |-> f, rid |-> i, usage |-> u]
FrameKinds ==
    { Frame(c, f, 0, 0) : c \in BOOLEAN, f \in BOOLEAN }
      \cup { Frame(FALSE, FALSE, i, 0) : i \in {1, 2} }
      \cup { Frame(FALSE, FALSE, 0, u) : u \in {1, 2} }
FrameSeqs == UNION { [1..n -> FrameKinds] : n \in 0..MaxFrames }

\* The bytes on the wire: frame i is two symbols <<i, 1>>, <<i, 2>> (a network read may
\* end between them) followed by the newline <<0, 0>>; the last newline may be missing.
NL == <<0, 0>>
RECURSIVE Wire(_, _, _)
Wire(n, i, term) ==
    IF i > n THEN <<>>
    ELSE <<(<<i, 1>>), (<<i, 2>>)>> \o (IF i < n \/ term THEN <<NL>> ELSE <<>>)
           \o Wire(n, i + 1, term)
WireOf(st) == Wire(Len(st.frames), 1, st.term)

\* buffer.split('\n') (chat.js:379): the pieces between newlines, the last one being what
\* follows the last newline
RECURSIVE split(_, _)
split(buf, cur) ==
    IF buf = <<>> THEN <<cur>>
    ELSE IF Head(buf) = NL THEN <<cur>> \o split(Tail(buf), <<>>)
    ELSE split(Tail(buf), Append(cur, Head(buf)))
\* JSON.parse of a line (chat.js:383-387): the frame when the line is a whole frame, 0 when
\* it is empty or does not parse (such lines are skipped)
parse(line) ==
    IF Len(line) = 2 /\ line[1][2] = 1 /\ line[2] = <<line[1][1], 2>> THEN line[1][1] ELSE 0

\* the `for (const line of lines)` loop (chat.js:382-396): every line of the read is
\* handled, also those after the one that sets `finished`
RECURSIVE forLines(_, _)
forLines(st, lines) ==
    IF lines = <<>> THEN st
    ELSE LET i == parse(Head(lines)) IN
         IF i = 0 THEN forLines(st, Tail(lines))
         ELSE LET f == st.frames[i] IN
              forLines([st EXCEPT
                          !.responseId = IF f.rid # 0 THEN f.rid ELSE @,
                          !.fullContent = IF f.content THEN Append(@, i) ELSE @,
                          !.finished = @ \/ f.fin,
                          !.usage = IF f.usage # 0 THEN f.usage ELSE @],
                       Tail(lines))
\* one `reader.read()` that returned a chunk (chat.js:376-396)
readChunk(st, k) ==
    LET chunk == SubSeq(WireOf(st), st.pos + 1, st.pos + k)
        lines == split(st.buffer \o chunk, <<>>)
    IN forLines([st EXCEPT !.pos = @ + k, !.buffer = Last(lines)], Front(lines))

\* ------------------------------------------------------------------ task responses
\* extractTaskId (chat.js:629-633)
extractTaskId_topLevelFirst(data) ==
    IF data.id # NULL THEN data.id
    ELSE IF data.wanx # NULL THEN data.wanx
    ELSE IF data.task_id # NULL THEN data.task_id
    ELSE IF data.response_id # NULL THEN data.response_id
    ELSE data.message_id
extractTaskId(data) ==
    IF data.wanx # NULL THEN data.wanx
    ELSE IF data.id # NULL THEN data.id
    ELSE IF data.task_id # NULL THEN data.task_id
    ELSE IF data.response_id # NULL THEN data.response_id
    ELSE data.message_id
\* the result for a created task that the caller will poll itself (chat.js:555-565)
taskCreated_noFallback(rec, data) ==
    [NoResult EXCEPT !.tag = "task", !.chatId = rec.chatId, !.taskId = extractTaskId(data),
                     !.status = "processing", !.parentId = data.parent_id]
taskCreated(rec, data) ==
    [NoResult EXCEPT !.tag = "task", !.chatId = rec.chatId, !.taskId = extractTaskId(data),
                     !.status = "processing",
                     !.parentId = IF data.parent_id # NULL THEN data.parent_id
                                  ELSE extractTaskId(data)]

\* executeApiRequest's script gets an ok response to a streaming payload (chat.js:361-373)
StartStream(r, frames, term) ==
    /\ ~exited /\ rq[r].pc = "idle"
    /\ rq' = [rq EXCEPT ![r] = [@ EXCEPT !.pc = "ex_read",
                                         !.strm = [NoStream EXCEPT !.frames = frames,
                                                                   !.term = term]]]
    /\ UNCHANGED shared
\* `await reader.read()` returns the next k symbols (chat.js:375-397)
ReadChunk(r, k) ==
    /\ ~exited /\ rq[r].pc = "ex_read" /\ ~rq[r].strm.finished
    /\ k \in 1..(Len(WireOf(rq[r].strm)) - rq[r].strm.pos)
    /\ rq' = [rq EXCEPT ![r].strm = readChunk(@, k)]
    /\ UNCHANGED shared
\* the loop ends, on `finished` or on a read that reports the end of the stream; the
\* script returns (chat.js:375-377, 399-411)
EndStream(r) ==
    /\ ~exited /\ rq[r].pc = "ex_read"
    /\ rq[r].strm.finished \/ rq[r].strm.pos = Len(WireOf(rq[r].strm))
    /\ rq' = [rq EXCEPT ![r].pc = "ex_done"]
    /\ UNCHANGED shared

\* ------------------------------------------------------------------ failure handling
\* The tests of handleApiError, in the order of the code (chat.js:427, 437, 454, 472).
\* response.html is read from the response itself; errorBody is the upstream's body.
isVerification(resp) == resp.html
isUnauthorized_bodyOnly(resp) ==
    resp.kind = "http" /\ ("Unauthorized" \in resp.body \/ "Token has expired" \in resp.body)
isUnauthorized(resp) ==
    \/ resp.status = 401
    \/ (resp.kind = "http" /\ ("Unauthorized" \in resp.body \/ "Token has expired" \in resp.body))
isRateLimited(resp) == resp.kind = "http" /\ "RateLimited" \in resp.body
classify(resp) ==
    IF isVerification(resp) THEN "verification"
    ELSE IF isUnauthorized(resp) THEN "unauthorized"
    ELSE IF isRateLimited(resp) THEN "ratelimited"
    ELSE "generic"

\* `Number(rateInfo.num) || 24` (chat.js:457)
hoursOf_alwaysDefault(resp) == DEFAULT_HOURS
hoursOf(resp) == IF resp.num # 0 THEN resp.num ELSE DEFAULT_HOURS
\* `retryCount < MAX_RETRY_COUNT` (chat.js:445, 466)
mayRetry_inclusive(retryCount) == retryCount <= MAX_RETRY_COUNT
mayRetry_inverted(retryCount) == retryCount > MAX_RETRY_COUNT
mayRetry_always(retryCount) == TRUE
mayRetry(retryCount) == retryCount < MAX_RETRY_COUNT
\* the recursive call sendMessage(message, model, chatId, parentId, files, null, null, null,
\* chatType, size, waitForCompletion, retryCount + 1) (chat.js:446, 467): tools, toolChoice
\* and systemMessage are passed as null
retry(rec) ==
    sendMessage([rec EXCEPT !.retryCount = @ + 1, !.tokenObj = NULL, !.resp = NoResp,
                            !.sentTok = NULL,
                            !.tools = FALSE, !.toolChoice = FALSE, !.systemMessage = FALSE])

\* the result for a failure that matches no rule (chat.js:472): `error` is the fetch error
\* or the status text, `details` the error body
genericResult_noDetails(rec, resp) ==
    [Err(rec, "generic") EXCEPT !.status = IF resp.kind = "http" THEN "http" ELSE "fetch"]
genericResult(rec, resp) ==
    [Err(rec, "generic") EXCEPT !.status = IF resp.kind = "http" THEN "http" ELSE "fetch",
                                !.details = resp.body]

\* sendMessage's `pagePool.releasePage(page); page = null;` (chat.js:600-601), as seen by
\* the call: it holds no page any more, and the response has been consumed
released_keepsPage(rec) == [rec EXCEPT !.sentTok = NULL, !.resp = NoResp]
released(rec) == [rec EXCEPT !.page = NULL, !.sentTok = NULL, !.resp = NoResp]

\* pagePool.clear up to its first await (chat.js:76-83), `pool` being the idle handles
\* when it is called, and what follows it when the pool is empty (chat.js:431-432, 450)
clear_rec(rec, pool, cause) ==
    IF Len(pool) = 0 THEN [rec EXCEPT !.pc = "h_shutdown", !.cause = cause, !.resp = NoResp]
    ELSE [rec EXCEPT !.pc = "h_clear", !.ci = 1, !.cause = cause, !.resp = NoResp]
clear_pageSt(S, pool) == IF Len(pool) = 0 THEN S ELSE close(S, pool[1])

\* sendMessage after `await executeApiRequest(...)` (chat.js:537-612) and, for a failed
\* response, handleApiError up to its first await (chat.js:422-472)
HandleResponse(r) ==
    /\ ~exited /\ rq[r].pc = "sm_resp"
    /\ LET rec  == rq[r]
           resp == rec.resp
           rel  == released(rec)
           pool == releasePage_pages(rec.page)
           relS == releasePage_pageSt(rec.page)
           cls  == classify(resp)
           h    == rel
       IN
       CASE resp.kind = "throw" ->
              /\ rq' = [rq EXCEPT ![r] = Finish(rec, Err(rec, "exception"))]
              /\ pages' = pages
              /\ pageSt' = Collect(finally_pageSt(rec), pages', rq')
              /\ UNCHANGED <<authToken, authStatus, acct>>
         [] resp.kind = "task" /\ extractTaskId(resp.data) # NULL /\ rec.waitForCompletion ->
              /\ rq' = [rq EXCEPT ![r] =
                          pollTaskStatus([rec EXCEPT !.resp = NoResp,
                                                     !.taskId = extractTaskId(resp.data)],
                                         rec.page, authToken, TASK_POLL_MAX_ATTEMPTS)]
              /\ UNCHANGED <<authToken, authStatus, acct, pages, pageSt>>
         [] resp.kind = "task" /\ ~(extractTaskId(resp.data) # NULL /\ rec.waitForCompletion) ->
              /\ rq' = [rq EXCEPT ![r] =
                          IF extractTaskId(resp.data) = NULL
                          THEN Finish(rel, Err(rel, "task_id_missing"))
                          ELSE Finish(rel, taskCreated(rel, resp.data))]
              /\ pages' = pool
              /\ pageSt' = Collect(relS, pages', rq')
              /\ UNCHANGED <<authToken, authStatus, acct>>
         [] resp.kind = "stream" ->
              /\ rq' = [rq EXCEPT ![r] =
                          Finish(rel, [NoResult EXCEPT !.tag = "ok", !.chatId = rec.chatId,
                                                       !.content = resp.content])]
              /\ pages' = pool
              /\ pageSt' = Collect(relS, pages', rq')
              /\ UNCHANGED <<authToken, authStatus, acct>>
         [] resp.kind \in {"http", "error"} /\ cls = "verification" ->
              /\ authStatus' = FALSE
              /\ authToken' = IF Len(pool) = 0 THEN NULL ELSE authToken
              /\ rq' = [rq EXCEPT ![r] = clear_rec(h, pool, "verification")]
              /\ pages' = pool
              /\ pageSt' = Collect(clear_pageSt(relS, pool), pages', rq')
              /\ UNCHANGED acct
         [] resp.kind \in {"http", "error"} /\ cls = "unauthorized" ->
              /\ authToken' = NULL
              /\ rq' = [rq EXCEPT ![r] = [h EXCEPT !.pc = "h_import1",
                                                   !.burnt = @ \cup {rec.tokenObj}]]
              /\ pages' = pool
              /\ pageSt' = Collect(relS, pages', rq')
              /\ UNCHANGED <<authStatus, acct>>
         [] resp.kind \in {"http", "error"} /\ cls = "ratelimited" ->
              /\ acct' = IF resp.json THEN markRateLimited(acct, rec.tokenObj, hoursOf(resp))
                         ELSE acct
              /\ authToken' = NULL
              /\ rq' = [rq EXCEPT ![r] =
                          IF mayRetry(rec.retryCount) THEN retry(h)
                          ELSE Finish(h, Err(h, "rate_limited"))]
              /\ pages' = pool
              /\ pageSt' = Collect(relS, pages', rq')
              /\ UNCHANGED authStatus
         [] resp.kind \in {"http", "error"} /\ cls = "generic" ->
              /\ rq' = [rq EXCEPT ![r] =
                          Finish(h, genericResult(h, resp))]
              /\ pages' = pool
              /\ pageSt' = Collect(relS, pages', rq')
              /\ UNCHANGED <<authToken, authStatus, acct>>
    /\ UNCHANGED <<ctxShape, browserUp, now, exited>>

\* handleApiError after the first `await import(...)`: markInvalid (chat.js:440-444)
UnauthMark(r) ==
    /\ ~exited /\ rq[r].pc = "h_import1"
    /\ acct' = markInvalid(acct, rq[r].tokenObj)
    /\ rq' = [rq EXCEPT ![r].pc = "h_import2"]
    /\ UNCHANGED <<authToken, pages, pageSt, ctxShape, browserUp, authStatus, now, exited>>

\* handleApiError after the second `await import(...)`: retry, or drain the pool for the
\* shutdown (chat.js:444-450)
UnauthDecide(r) ==
    /\ ~exited /\ rq[r].pc = "h_import2"
    /\ LET rec == rq[r] IN
       IF hasValidTokens /\ mayRetry(rec.retryCount)
       THEN /\ rq' = [rq EXCEPT ![r] = retry(rec)]
            /\ pageSt' = pageSt
       ELSE /\ rq' = [rq EXCEPT ![r] = clear_rec(rec, pages, "fatal")]
            /\ pageSt' = clear_pageSt(pageSt, pages)
    /\ UNCHANGED <<authToken, pages, ctxShape, browserUp, authStatus, acct, now, exited>>

\* pagePool.clear after one `await page.close()` (chat.js:77-83), and what follows the
\* drain (chat.js:431-432, 450)
ClearStep(r) ==
    /\ ~exited /\ rq[r].pc = "h_clear"
    /\ LET rec == rq[r] IN
       IF rec.ci + 1 <= Len(pages)
       THEN /\ rq' = [rq EXCEPT ![r].ci = @ + 1]
            /\ pageSt' = close(pageSt, pages[rec.ci + 1])
            /\ UNCHANGED <<pages, authToken>>
       ELSE /\ pages' = <<>>
            /\ rq' = [rq EXCEPT ![r] = [rec EXCEPT !.pc = "h_shutdown", !.ci = 0]]
            /\ pageSt' = Collect(pageSt, pages', rq')
            /\ authToken' = IF rec.cause = "verification" THEN NULL ELSE authToken
    /\ UNCHANGED <<ctxShape, browserUp, authStatus, acct, now, exited>>

\* after `await shutdownBrowser()`: process.exit(1) (chat.js:450-451), or for a
\* verification initBrowser(true) and the error result (chat.js:432-434)
Shutdown(r) ==
    /\ ~exited /\ rq[r].pc \in {"h_shutdown", "h_init"}
    /\ LET rec == rq[r] IN
       IF rec.pc = "h_init"
       THEN /\ browserUp' = TRUE
            /\ exited' = exited
            /\ rq' = [rq EXCEPT ![r] =
                        Finish(rec, [Err(rec, "verification") EXCEPT !.verification = TRUE])]
       ELSE /\ browserUp' = FALSE
            /\ exited' = (rec.cause = "fatal")
            /\ rq' = [rq EXCEPT ![r].pc = IF rec.cause = "fatal" THEN "exit" ELSE "h_init"]
    /\ UNCHANGED <<authToken, pages, pageSt, ctxShape, authStatus, acct, now>>

\* the caller has its result; the slot is free for the next call
Return(r) ==
    /\ ~exited /\ rq[r].pc = "done"
    /\ rq' = [rq EXCEPT ![r] = IdleReq]
    /\ UNCHANGED shared

\* an hour passes
Tick ==
    /\ ~exited /\ now < MaxNow
    /\ now' = now + 1
    /\ UNCHANGED <<authToken, pages, pageSt, ctxShape, browserUp, authStatus, acct, exited, rq>>

\* ------------------------------------------------------------------ specifications
Inputs == [message : Messages, chatId : BOOLEAN, chatType : ChatTypes,
           tools : {FALSE}, toolChoice : {FALSE}, systemMessage : {FALSE},
           waitForCompletion : BOOLEAN]
Bodies == SUBSET Markers

\* The steps of request r, by part of the pipeline.  The inputs of a call are drawn from
\* Ins, the failures of the upstream from Fails, the answers to a status check from Tks.
ChatStep(r) ==
    \/ \E a \in Accounts \cup {NULL} : CreateChatToken(r, a)
    \/ \E t \in {NULL, BROWSER} : CreateChatExtract(r, t)
    \/ CreateChatSend(r)
    \/ \E o \in {"ok", "fail", "throw"} : CreateChatResult(r, o)
SendStep(r, Ins, Fails) ==
    \/ \E in \in Ins : Start(r, in)
    \/ \E ok \in BOOLEAN : Navigate(r, ok)
    \/ \E a \in Accounts \cup {NULL} : ResolveToken(r, a)
    \/ \E ok \in BOOLEAN : CheckAuth(r, ok)
    \/ AcquireThrows(r)
    \/ \E t \in {NULL, BROWSER} : ResolveExtract(r, t)
    \/ \E thrown \in BOOLEAN : SendGenerate(r, thrown)
    \/ \E resp \in ExecSuccesses(rq[r].chatType) \cup Fails : GenResponse(r, resp)
    \/ HandleResponse(r)
\* the steps taken only when the cached token was cleared under a suspended request
TokenStep(r) ==
    \/ \E t \in {NULL, BROWSER}, thrown \in BOOLEAN : Boot(r, t, thrown)
    \/ \E t \in {NULL, BROWSER} : FetchPageToken(r, t)
FailStep(r) ==
    \/ UnauthMark(r)
    \/ UnauthDecide(r)
    \/ ClearStep(r)
    \/ Shutdown(r)
PollStep(r, Tks) ==
    \/ \E tick \in Tks : PollTick(r, tick)
    \/ PollDelay(r)
    \/ PollReturn(r)
Step(r, Ins, Fails, Tks) ==
    ChatStep(r) \/ SendStep(r, Ins, Fails) \/ FailStep(r) \/ PollStep(r, Tks)

\* One caller at a time: every input, every response of the upstream.
Next == Step("r1", Inputs, ExecFailures(Bodies, Nums), Ticks)
Spec == Init /\ [][Next]_vars

\* One caller at a time, with the clock running: the calls have a chat and stream, and the
\* upstream fails them as unauthorized or as rate-limited for 1 or 2 hours or no stated time.
ClockInputs == { in \in Inputs : in.message = "text" /\ in.chatId /\ in.chatType = "t2t"
                                 /\ in.waitForCompletion }
ClockFails == { f \in ExecFailures({{}, {"RateLimited"}}, {0, 1, 2}) :
                  f.kind = "http" /\ (f.status = 401 <=> f.body = {}) }
NextClock == SendStep("r1", ClockInputs, ClockFails) \/ FailStep("r1") \/ Tick
ClockInit == Init /\ ctxShape = "context"
SpecClock == ClockInit /\ [][NextClock]_vars

\* Two callers at once.  r1 has no chat yet and asks for a video, waiting for it; r2 has a
\* chat and streams, and the upstream fails it as unauthorized or as rate-limited.
ConcInit == Init /\ \A a \in Accounts : ~acct[a].invalid
VideoInputs == { in \in Inputs : in.message = "text" /\ ~in.chatId /\ in.chatType = "t2v"
                                 /\ in.waitForCompletion }
ConcFails == { f \in ExecFailures({{}, {"RateLimited"}}, {2}) :
                 f.kind = "http" /\ f.json /\ (f.status = 401 <=> f.body = {}) }
ConcTicks == { t \in Ticks : t.status = "" /\ t.task_status \in {"", "completed"} }
NextConc ==
    \/ Step("r1", VideoInputs, {}, ConcTicks) \/ TokenStep("r1")
    \/ Step("r2", ClockInputs, ConcFails, ConcTicks) \/ TokenStep("r2")
SpecConc == ConcInit /\ [][NextConc]_vars

\* Two callers at once, each with a chat and a text message, and an upstream that answers:
\* the traffic on the page pool.
NextPool == SendStep("r1", ClockInputs, {}) \/ SendStep("r2", ClockInputs, {})
SpecPool == Init /\ [][NextPool]_vars

\* One caller at a time, on an existing chat, with and without tools, a tool choice and
\* a system message; the upstream fails the call for no stated reason (with a body, with an
\* empty one, or with no response at all), as unauthorized, or as rate-limited.
RetryInputs == [message : {"text"}, chatId : {TRUE}, chatType : {"t2t"},
                tools : BOOLEAN, toolChoice : BOOLEAN, systemMessage : BOOLEAN,
                waitForCompletion : {TRUE}]
RetryFails == { f \in ExecFailures({{}, {OtherText}, {"RateLimited"}}, {2}) :
                  f.kind = "http" => (f.json /\ (f.status = 401 => f.body = {})) }
NextRetry == SendStep("r1", RetryInputs, RetryFails) \/ FailStep("r1")
SpecRetry == Init /\ [][NextRetry]_vars

\* One caller whose every await returns: with and without a chat, for text and for video
\* (waiting for it), the upstream failing attempts as unauthorized or rate-limited and
\* answering status checks with failures, pending and terminal statuses.
TermInputs == { in \in Inputs : in.message = "text" /\ in.waitForCompletion }
TermFails == { f \in ClockFails : f.json /\ f.num = 0 }
TermTicks == { t \in Ticks : t.status = "" /\ t.kind # "throw"
                            /\ t.task_status \in {"", "completed", "failed"} }
NextTerm == Step("r1", TermInputs, TermFails, TermTicks)
SpecTerm == Init /\ [][NextTerm]_vars /\ WF_vars(NextTerm)

\* pollTaskStatus called on its own, by two callers
PollArgs == 0..MaxPollArg
NextPoll ==
    \E r \in Reqs :
        \/ \E n \in PollArgs, t \in Accounts : StartPoll(r, CtxPage, t, n)
        \/ \E tick \in Ticks : PollTick(r, tick)
        \/ PollDelay(r)
PollInit == Init /\ ctxShape = "page" /\ authStatus /\ \A a \in Accounts : ~acct[a].invalid
SpecPoll == PollInit /\ [][NextPoll]_vars

\* One caller at a time, on an existing chat, for text, image and video, waiting for the
\* video or not: the upstream creates the task with every combination of identifiers.
TaskInputs == [message : {"text"}, chatId : {TRUE}, chatType : AllChatTypes,
               tools : {FALSE}, toolChoice : {FALSE}, systemMessage : {FALSE},
               waitForCompletion : BOOLEAN]
NextTask == SendStep("r1", TaskInputs, TaskResponses(TaskBodies)) \/ PollStep("r1", ConcTicks)
SpecTask == Init /\ [][NextTask]_vars

\* The stream reader of executeApiRequest on its own: every sequence of up to MaxFrames
\* frames, with and without a last newline, cut into reads in every way.
NextStream ==
    \/ \E fs \in FrameSeqs, term \in BOOLEAN : StartStream("r1", fs, term)
    \/ \E k \in 1..(3 * MaxFrames) : ReadChunk("r1", k)
    \/ EndStream("r1")
StreamInit == Init /\ ctxShape = "context" /\ authStatus /\ \A a \in Accounts : ~acct[a].invalid
SpecStream == StreamInit /\ [][NextStream]_vars

\* ------------------------------------------------------------------ the task poller
Polling(r) == rq[r].pc \in {"poll_fetch", "poll_delay", "poll_done"}

\* C6: pollTaskStatus with maxAttempts = N never issues more than N status checks; while
\* it runs it has issued one check per attempt; it returns only 'completed', 'failed' or
\* 'timeout', never a pending status; and when it returns 'timeout' it has issued exactly
\* N checks (none for N = 0).
C6_TimeoutAfterExactlyMaxAttempts ==
    \A r \in Reqs :
        LET q == rq[r] IN
        Polling(r) =>
            /\ q.checks <= q.maxAttempts
            /\ q.pc \in {"poll_fetch", "poll_delay"} =>
                   q.checks = q.attempt /\ q.attempt <= q.maxAttempts /\ q.poll = ""
            /\ q.pc = "poll_done" => q.poll \in {"completed", "failed", "timeout"}
            /\ (q.pc = "poll_done" /\ q.poll = "timeout") =>
                   q.checks = q.maxAttempts /\ mapStatus(q.seen) = "pending"
\* three ticks, none terminal: 'timeout' after the third check
C6_Witness ==
    \E r \in Reqs :
        /\ rq[r].pc = "poll_done" /\ rq[r].poll = "timeout"
        /\ rq[r].maxAttempts = 3 /\ rq[r].checks = 3 /\ rq[r].seen = "processing"

\* C7: the tick that reports a terminal status ends the polling at once: with
\* 'completed' or 'success' the result is 'completed', with 'failed' or 'error' it is
\* 'failed'; the checks issued are those up to that attempt, each but the last followed
\* by one delay, and a poll that has returned issues no further check and no further delay.
C7_TerminalTickStopsPolling ==
    /\ [](\A r \in Reqs :
            LET q == rq[r] IN
            (Polling(r) /\ q.seen \in {"completed", "success", "failed", "error"}) =>
                /\ q.pc = "poll_done"
                /\ q.poll = (IF q.seen \in {"completed", "success"} THEN "completed" ELSE "failed")
                /\ q.checks = q.attempt /\ q.delays = q.attempt - 1)
    /\ [][\A r \in Reqs :
            rq[r].pc = "poll_done" =>
                rq'[r].checks = rq[r].checks /\ rq'[r].delays = rq[r].delays]_vars
\* a terminal status at the second of three attempts
C7_Witness ==
    \E r \in Reqs :
        /\ rq[r].pc = "poll_done" /\ rq[r].poll = "completed" /\ rq[r].seen = "success"
        /\ rq[r].maxAttempts = 3 /\ rq[r].attempt = 2 /\ rq[r].checks = 2 /\ rq[r].delays = 1

\* ------------------------------------------------------------------ the retry orchestrator
\* request r takes a step
Moves(r) == rq'[r] # rq[r]
\* the response being handled failed, and how the body and status read
Failed(r) == rq[r].pc = "sm_resp" /\ rq[r].resp.kind \in {"http", "error"}
AuthExpired(resp) ==
    resp.status = 401 \/ "Unauthorized" \in resp.body \/ "Token has expired" \in resp.body
RateBody(resp) == "RateLimited" \in resp.body
Retried(r) == rq'[r].retryCount = rq[r].retryCount + 1

\* C1: one call of sendMessage issues at most MAX_RETRY_COUNT + 1 generation requests,
\* whatever the upstream answers; the request in flight is number retryCount + 1; and
\* retryCount changes only by a retry after a failed response, which adds exactly 1.
C1_AttemptsBounded ==
    /\ [](\A r \in Reqs :
            /\ rq[r].attempts <= MAX_RETRY_COUNT + 1
            /\ rq[r].retryCount <= MAX_RETRY_COUNT
            /\ rq[r].pc \in {"sm_fetch", "sm_resp"} => rq[r].attempts = rq[r].retryCount + 1)
    /\ [][\A r \in Reqs :
            (rq[r].pc # "idle" /\ rq'[r].retryCount # rq[r].retryCount) =>
                /\ Retried(r)
                /\ rq[r].pc \in {"sm_resp", "h_import2"}
                /\ rq'[r].attempts = rq[r].attempts]_vars
\* the last allowed attempt was rate-limited too: the call ends with an error
C1_Witness ==
    \E r \in Reqs :
        /\ rq[r].pc = "done" /\ rq[r].result.error = "rate_limited"
        /\ rq[r].attempts = MAX_RETRY_COUNT + 1 /\ rq[r].retryCount = MAX_RETRY_COUNT

\* C3: a response with status 401 or an authorization-expired body clears the cached
\* token; the account acquired for the attempt is then marked invalid; and the call is
\* retried with retryCount + 1 exactly when an account is usable and retryCount is below
\* MAX_RETRY_COUNT.  A streamed answer is returned with its content, and a call that
\* succeeded after unauthorized attempts has left the accounts of those attempts invalid.
C3_UnauthorizedRotatesAccount ==
    /\ [][\A r \in Reqs :
            /\ (Failed(r) /\ AuthExpired(rq[r].resp) /\ Moves(r)) =>
                   /\ authToken' = NULL
                   /\ rq'[r].pc = "h_import1" /\ rq'[r].retryCount = rq[r].retryCount
                   /\ rq'[r].tokenObj = rq[r].tokenObj
            /\ (rq[r].pc = "h_import1" /\ Moves(r)) =>
                   /\ rq[r].tokenObj \in Accounts => acct'[rq[r].tokenObj].invalid
                   /\ rq'[r].pc = "h_import2"
            /\ (rq[r].pc = "h_import2" /\ Moves(r)) =>
                   (Retried(r) <=> (hasValidTokens /\ rq[r].retryCount < MAX_RETRY_COUNT))
            /\ (rq[r].pc = "sm_resp" /\ rq[r].resp.kind = "stream" /\ Moves(r)) =>
                   /\ rq'[r].pc = "done" /\ rq'[r].result.tag = "ok"
                   /\ rq'[r].result.content = rq[r].resp.content]_vars
    /\ [](\A r \in Reqs :
            (rq[r].pc = "done" /\ rq[r].result.tag = "ok") =>
                /\ \A a \in rq[r].burnt \cap Accounts : acct[a].invalid
                /\ Cardinality(rq[r].burnt \cap Accounts) < rq[r].attempts)
\* three accounts: the first two attempts were unauthorized, the third answered "Paris"
C3_Witness ==
    \E r \in Reqs :
        /\ rq[r].pc = "done" /\ rq[r].result.tag = "ok" /\ rq[r].result.content = "Paris"
        /\ rq[r].attempts = 3 /\ Cardinality(rq[r].burnt) = 2
        /\ \A a \in rq[r].burnt : a \in Accounts /\ acct[a].invalid
        /\ Cardinality({a \in Accounts : ~acct[a].invalid}) = NumAccounts - 2

\* C4: a response handled as rate-limited whose body carries num = h marks the account
\* acquired for the attempt rate-limited until now + h and clears the cached token; the
\* call is retried, acquiring an account afresh, while retryCount is below
\* MAX_RETRY_COUNT and ends with an error otherwise; and no acquisition returns an
\* account whose rate-limit window has not passed.
C4_RateLimitedMarksForHours ==
    [][\A r \in Reqs :
         /\ (Failed(r) /\ RateBody(rq[r].resp) /\ ~AuthExpired(rq[r].resp)
               /\ rq[r].resp.json /\ rq[r].resp.num # 0 /\ Moves(r)) =>
                /\ rq[r].tokenObj \in Accounts =>
                       acct'[rq[r].tokenObj].until = now + rq[r].resp.num
                /\ \A a \in Accounts \ {rq[r].tokenObj} : acct'[a] = acct[a]
                /\ authToken' = NULL
                /\ IF rq[r].retryCount < MAX_RETRY_COUNT
                   THEN Retried(r) /\ rq'[r].pc = "sm_token" /\ rq'[r].tokenObj = NULL
                   ELSE rq'[r].pc = "done" /\ rq'[r].result.error = "rate_limited"
         /\ (rq[r].pc = "sm_token" /\ rq'[r].tokenObj \in Accounts) =>
                /\ acct[rq'[r].tokenObj].until <= now
                /\ authToken' = rq'[r].tokenObj]_vars
\* num: 2 an hour ago: the marked account is still skipped, the retry runs on another
C4_Witness ==
    \E r \in Reqs, a \in Accounts :
        /\ acct[a].until = 2 /\ now = 1
        /\ rq[r].pc = "sm_fetch" /\ rq[r].retryCount = 1 /\ rq[r].tokenObj \in Accounts \ {a}

C8_VerificationMarkerFirst ==
    [][\A r \in Reqs :
         /\ (Failed(r) /\ "Verification" \in rq[r].resp.body /\ Moves(r)) =>
                /\ ~authStatus'
                /\ rq'[r].cause = "verification" /\ rq'[r].pc \in {"h_clear", "h_shutdown"}
         /\ (Failed(r) /\ "Verification" \notin rq[r].resp.body /\ AuthExpired(rq[r].resp)
               /\ RateBody(rq[r].resp) /\ Moves(r)) =>
                rq'[r].pc = "h_import1" /\ acct' = acct]_vars

\* C9 as stated: on a failure that requires verification the cached token is cleared,
\* the pool drained and the browser restarted, the call is not retried and no account
\* changes.
C9_VerificationNotRetried ==
    [][\A r \in Reqs :
         (Failed(r) /\ "Verification" \in rq[r].resp.body /\ Moves(r)) =>
             /\ rq'[r].cause = "verification"
             /\ rq'[r].retryCount = rq[r].retryCount /\ rq'[r].attempts = rq[r].attempts
             /\ acct' = acct
             /\ rq'[r].pc = "h_shutdown" => authToken' = NULL /\ pages' = <<>>]_vars

\* ------------------------------------------------------------------ concurrent requests
\* C2 as stated: no page is held by two requests at once, nor held by one while idle in
\* the pool, for a context that creates pages and for a context that is a page.
C2_NoPageHeldTwice ==
    \A r \in Reqs :
        rq[r].page # NULL =>
            /\ \A o \in Reqs \ {r} : rq[o].page # rq[r].page
            /\ ~InPool(rq[r].page)

\* C10 as stated: no chat creation, generation request or status check is in flight
\* with an absent token.
C10_NoCallWithoutToken ==
    \A r \in Reqs : rq[r].pc \in {"cc_fetch", "sm_fetch", "poll_fetch"} => rq[r].sentTok # NULL

\* C23 as stated: the status checks of a server-side poll go out on the page and with the
\* token of the generation request that created the task, whatever other calls do to the
\* cached token in the meantime.
C23_PollUsesGenerationToken ==
    [][\A r \in Reqs :
         /\ (rq[r].pc = "sm_resp" /\ rq'[r].pc = "poll_fetch") =>
                rq'[r].sentTok = rq[r].sentTok /\ rq'[r].page = rq[r].page
         /\ (rq[r].pc \in {"poll_fetch", "poll_delay"} /\ rq'[r].pc \in {"poll_fetch", "poll_delay"}) =>
                rq'[r].sentTok = rq[r].sentTok /\ rq'[r].page = rq[r].page]_vars

\* ------------------------------------------------------------------ credentials and results
Calling(r) == rq[r].pc \in {"cc_fetch", "sm_fetch", "poll_fetch"}

\* C11 as stated: while no account is usable, no upstream call is made.
C11_NoAccountNoCall == ~hasValidTokens => \A r \in Reqs : ~Calling(r)
\* C11 amended: when the account pool yields no account, the call falls back to the
\* browser's own login: no account token is cached and no request is issued by the
\* acquisition; with the authentication status down the authentication is checked first;
\* when the check fails or the browser yields no token the call ends with an error and no
\* request; and a request made while no account is usable carries the browser's token.
C11_NoAccountFallsBackToBrowser ==
    /\ [][\A r \in Reqs :
            /\ (rq[r].pc = "sm_token" /\ ~hasValidTokens /\ Moves(r)) =>
                   /\ rq'[r].tokenObj \in {NULL, BROWSER}
                   /\ authToken' = authToken
                   /\ rq'[r].attempts = rq[r].attempts
                   /\ ~authStatus => rq'[r].pc \in {"sm_auth", "done"}
                   /\ (authStatus /\ authToken = NULL) => rq'[r].pc \in {"sm_extract", "done"}
            /\ (rq[r].pc \in {"sm_token", "sm_auth", "sm_extract", "cc_token", "cc_extract"}
                  /\ rq'[r].pc = "done") =>
                   /\ rq'[r].result.tag \in {"error", "rejected"}
                   /\ rq'[r].attempts = rq[r].attempts
            /\ (rq[r].pc = "sm_extract" /\ Moves(r)) =>
                   IF authToken' = NULL
                   THEN rq'[r].pc = "done" /\ rq'[r].result.error = "auth"
                   ELSE rq'[r].tokenObj = BROWSER /\ authToken' = BROWSER
            /\ (rq[r].pc = "cc_extract" /\ Moves(r)) =>
                   IF authToken' = NULL
                   THEN rq'[r].pc = "done" /\ rq'[r].result.error = "create_chat"
                   ELSE rq'[r].pc \in {"nav", "cc_page"}]_vars
    /\ [](\A r \in Reqs :
            (Calling(r) /\ ~hasValidTokens) =>
                /\ rq[r].sentTok = BROWSER
                /\ rq[r].pc = "sm_fetch" => rq[r].tokenObj = BROWSER)
\* every account is invalid and the generation request is out, on the browser's token
C11_Witness ==
    \E r \in Reqs :
        /\ \A a \in Accounts : acct[a].invalid
        /\ rq[r].pc = "sm_fetch" /\ rq[r].tokenObj = BROWSER /\ rq[r].sentTok = BROWSER

\* C12 as stated: a finished call has resolved to a result: one with an error, or a
\* synchronous, task-created or completed-task result without one; no call is rejected.
C12_EveryFailureIsAnErrorResult ==
    \A r \in Reqs :
        /\ rq[r].pc = "done" => rq[r].result.tag \in {"error", "ok", "task", "video"}
        /\ rq[r].result.tag = "error" <=> rq[r].result.error # ""

\* ------------------------------------------------------------------ the stream reader
\* the frames up to and including the first that signals completion
RECURSIVE UpToCompletion(_)
UpToCompletion(frames) ==
    IF frames = <<>> THEN <<>>
    ELSE IF Head(frames).fin THEN <<Head(frames)>>
    ELSE <<Head(frames)>> \o UpToCompletion(Tail(frames))
ContentOf(frames) ==
    LET n == Len(UpToCompletion(frames)) IN
    LET RECURSIVE cat(_)
        cat(i) == IF i > n THEN <<>>
                  ELSE (IF frames[i].content THEN <<i>> ELSE <<>>) \o cat(i + 1)
    IN cat(1)
Ids(frames) == { i \in 1..Len(frames) : frames[i].rid # 0 }
Usages(frames) == { i \in 1..Len(frames) : frames[i].usage # 0 }
Min(S) == CHOOSE x \in S : \A y \in S : x <= y
Max(S) == CHOOSE x \in S : \A y \in S : x >= y

\* C13 as stated: the content that the reader returns is the content of the frames up to
\* and including the completion frame (of all frames if none completes), in order,
\* however the stream is cut into reads and with or without a last newline.
C13_ContentIsConcatenation ==
    \A r \in Reqs :
        rq[r].pc = "ex_done" => rq[r].strm.fullContent = ContentOf(rq[r].strm.frames)

\* C14 as stated: the response id returned is that of the first frame that carries one,
\* and the usage returned is that of the last frame that carries one (none: the all-zero
\* usage, written 0).
C14_FirstIdLastUsage ==
    \A r \in Reqs :
        LET st == rq[r].strm IN
        rq[r].pc = "ex_done" =>
            /\ st.responseId = (IF Ids(st.frames) = {} THEN NULL
                                ELSE st.frames[Min(Ids(st.frames))].rid)
            /\ st.usage = (IF Usages(st.frames) = {} THEN 0
                           ELSE st.frames[Max(Usages(st.frames))].usage)

\* ------------------------------------------------------------------ created tasks
\* the first identifier present in a task body, in the order of the fields
FirstPresent(d) ==
    LET ids == <<d.wanx, d.id, d.task_id, d.response_id, d.message_id>>
        at == { i \in 1..Len(ids) : ids[i] # NULL }
    IN IF at = {} THEN NULL ELSE ids[Min(at)]
TaskAnswered(r) == rq[r].pc = "sm_resp" /\ rq[r].resp.kind = "task" /\ Moves(r)

\* C15: the task id taken from a task-creation body is the first present of: nested
\* wanx task id, id, task_id, response_id, nested message_id; with it the call polls under
\* that id or returns it; a body with none of them ends the call with a task-id-missing
\* error and no status check.
C15_TaskIdPrecedence ==
    [][\A r \in Reqs :
         TaskAnswered(r) =>
             LET t == FirstPresent(rq[r].resp.data) IN
             IF t = NULL
             THEN /\ rq'[r].pc = "done" /\ rq'[r].result.error = "task_id_missing"
                  /\ rq'[r].checks = 0 /\ rq'[r].result.taskId = NULL
             ELSE IF rq[r].waitForCompletion
             THEN rq'[r].pc = "poll_fetch" /\ rq'[r].taskId = t /\ rq'[r].checks = 1
             ELSE rq'[r].pc = "done" /\ rq'[r].result.taskId = t]_vars
\* a body whose only identifier is data.message_id: that id is returned
C15_Witness ==
    \E r \in Reqs :
        rq[r].pc = "done" /\ rq[r].result.tag = "task" /\ rq[r].result.taskId = 5

\* C18: a poll is always made under the id of the created task, and when it ends in
\* timeout the call returns an error result with status 'timeout', that task id and the
\* chat id.
C18_TimeoutCarriesTaskId ==
    /\ [](\A r \in Reqs : Polling(r) => rq[r].taskId # NULL /\ rq[r].chatId)
    /\ [][\A r \in Reqs :
            (rq[r].pc = "poll_done" /\ rq[r].poll = "timeout" /\ Moves(r)) =>
                /\ rq'[r].pc = "done"
                /\ rq'[r].result.tag = "error" /\ rq'[r].result.error # ""
                /\ rq'[r].result.status = "timeout"
                /\ rq'[r].result.taskId = rq[r].taskId
                /\ rq'[r].result.chatId = rq[r].chatId]_vars
\* the video of task 1 was not ready after the last check
C18_Witness ==
    \E r \in Reqs :
        /\ rq[r].pc = "done" /\ rq[r].result.tag = "error" /\ rq[r].result.status = "timeout"
        /\ rq[r].result.taskId = 1 /\ rq[r].result.chatId

\* C19: with waitForCompletion = false a task-creation body holding a task id ends the
\* call at once with the task-created result (task id, chat id, parent id - the body's
\* parent_id or else the task id -, status 'processing'); no status check is made, and the
\* page is back in the pool or closed when the call returns.
C19_TaskCreatedWithoutPolling ==
    [][\A r \in Reqs :
         (TaskAnswered(r) /\ ~rq[r].waitForCompletion
            /\ FirstPresent(rq[r].resp.data) # NULL) =>
             LET d == rq[r].resp.data
                 t == FirstPresent(d)
                 p == rq[r].page
             IN /\ rq'[r].pc = "done"
                /\ rq'[r].result = [NoResult EXCEPT !.tag = "task", !.taskId = t,
                                      !.chatId = rq[r].chatId, !.status = "processing",
                                      !.parentId = IF d.parent_id # NULL THEN d.parent_id ELSE t]
                /\ rq'[r].checks = 0 /\ rq'[r].page = NULL
                /\ p # NULL
                /\ (\E i \in 1..Len(pages') : pages'[i] = p) \/ pageSt'[p] \in {"closed", "free"}]_vars
\* task 2 created, no parent id in the body: returned with parentId 2, the page idle
C19_Witness ==
    \E r \in Reqs :
        /\ rq[r].pc = "done" /\ rq[r].result.tag = "task" /\ rq[r].result.status = "processing"
        /\ rq[r].result.taskId = 2 /\ rq[r].result.parentId = 2 /\ Len(pages) = 1

\* C20: the payload has stream = false exactly for a video request (true for text and
\* image); an ok response is a task exactly when the payload had stream = false; and a
\* task response never ends as synchronous content, a streamed one always does.
C20_StreamFlagDecidesTask ==
    /\ [](\A r \in Reqs :
            /\ rq[r].pc \in {"sm_fetch", "sm_resp"} =>
                   (~rq[r].stream <=> rq[r].chatType = "t2v")
            /\ (rq[r].pc = "sm_resp" /\ rq[r].resp.kind \in {"task", "stream"}) =>
                   (rq[r].resp.kind = "task" <=> ~rq[r].stream))
    /\ [][\A r \in Reqs :
            /\ TaskAnswered(r) => rq'[r].result.tag \in {"none", "task", "error"}
            /\ (rq[r].pc = "sm_resp" /\ rq[r].resp.kind = "stream" /\ Moves(r)) =>
                   rq'[r].pc = "done" /\ rq'[r].result.tag = "ok"]_vars
\* a video request answered with a task
C20_Witness ==
    \E r \in Reqs :
        /\ rq[r].pc = "sm_resp" /\ rq[r].chatType = "t2v" /\ ~rq[r].stream
        /\ rq[r].resp.kind = "task"

\* ------------------------------------------------------------------ failures and retries
\* the response being handled failed and matches no rule: no 401, no marker in the body
Unmatched(r) ==
    /\ Failed(r) /\ ~AuthExpired(rq[r].resp) /\ ~RateBody(rq[r].resp)
    /\ "Verification" \notin rq[r].resp.body

\* C21: a failed response that matches none of the rules ends the call at once with an
\* error result that carries the upstream's error or status text, its body and the chat
\* id; the call is not retried and no further request is issued; no account changes; the
\* cached token, the authentication status and the browser are left as they are; and no
\* idle page leaves the pool (the pool is what it was, plus the call's own page when it
\* had room for it).
C21_GenericFailureSurfaces ==
    [][\A r \in Reqs :
         (Unmatched(r) /\ Moves(r)) =>
             /\ rq'[r].pc = "done"
             /\ rq'[r].result.tag = "error" /\ rq'[r].result.error = "generic"
             /\ rq'[r].result.status = (IF rq[r].resp.kind = "http" THEN "http" ELSE "fetch")
             /\ rq'[r].result.details = rq[r].resp.body
             /\ rq'[r].result.chatId = rq[r].chatId
             /\ rq'[r].retryCount = rq[r].retryCount /\ rq'[r].attempts = rq[r].attempts
             /\ acct' = acct /\ authToken' = authToken /\ authStatus' = authStatus
             /\ browserUp' = browserUp /\ exited' = exited
             /\ pages' = (IF Len(pages) < PAGE_POOL_SIZE THEN Append(pages, rq[r].page)
                          ELSE pages)]_vars
\* a 500 with a body that holds no marker: the call is over after one request, with that
\* body in the result, the account it ran on still usable and its token still cached
C21_Witness ==
    \E r \in Reqs :
        /\ rq[r].pc = "done" /\ rq[r].result.error = "generic"
        /\ rq[r].result.details = {OtherText} /\ rq[r].attempts = 1
        /\ authToken \in Accounts /\ usable(authToken)

\* C22 as stated: a retry re-runs the call with the same request: message, chat id, chat
\* type, waitForCompletion, tools, tool choice and system message are those of the failed
\* attempt, and retryCount is one more.
C22_RetryKeepsRequest ==
    [][\A r \in Reqs :
         (rq[r].pc # "idle" /\ rq'[r].retryCount # rq[r].retryCount) =>
             /\ Retried(r)
             /\ rq'[r].message = rq[r].message /\ rq'[r].chatId = rq[r].chatId
             /\ rq'[r].chatType = rq[r].chatType
             /\ rq'[r].waitForCompletion = rq[r].waitForCompletion
             /\ rq'[r].tools = rq[r].tools /\ rq'[r].toolChoice = rq[r].toolChoice
             /\ rq'[r].systemMessage = rq[r].systemMessage]_vars

\* C28 as stated: a response handled as rate-limited whose body gives no usable number of
\* hours - none, zero, not a number, or a body that does not parse - marks the account of
\* the attempt rate-limited for DEFAULT_HOURS before the call is retried or ended.
C28_DefaultHoursWhenOmitted ==
    [][\A r \in Reqs :
         (Failed(r) /\ RateBody(rq[r].resp) /\ ~AuthExpired(rq[r].resp) /\ Moves(r)
            /\ (~rq[r].resp.json \/ rq[r].resp.num = 0) /\ rq[r].tokenObj \in Accounts) =>
             acct'[rq[r].tokenObj].until = now + DEFAULT_HOURS]_vars

\* C30 as stated: a call whose content fails validation - null, or an array with a part
\* that is not a well-typed part - has no request in flight at any time, with or without
\* a chat id; it ends with an error result; and until it ends the accounts, the cached
\* token and the pool are as the module was loaded with.
C30_InvalidContentTouchesNothing ==
    \A r \in Reqs :
        (rq[r].pc # "idle" /\ validateAndPrepareMessage(rq[r].message) # "content") =>
            /\ ~Calling(r) /\ rq[r].attempts = 0
            /\ rq[r].pc = "done" => rq[r].result.tag = "error"
            /\ authToken = NULL /\ pages = <<>>

\* ------------------------------------------------------------------ page ownership
\* request r gives up the page it holds
GivesUp(r) == rq[r].page # NULL /\ rq'[r].page = NULL
Rests(p) == (\E i \in 1..Len(pages') : pages'[i] = p) \/ pageSt'[p] \in {"closed", "free"}
Open == { p \in PageIds : pageSt[p] \in {"new", "ready"} }

\* C16 as stated: whenever a call gives up its page - on success, on an error result,
\* after a poll, on an exception - the page is then idle in the pool or closed, for a
\* context that creates pages and for a context that is a page.
C16_PageReturnedOrClosed == [][\A r \in Reqs : GivesUp(r) => Rests(rq[r].page)]_vars
\* C16 amended: with a context that creates pages, a page that a call gives up is then
\* idle in the pool or closed; with a context that is a page, it is idle in the pool
\* unless the call ends on an exception or without a token, when it is left open and
\* outside the pool; in both cases a call that is over holds no page.
C16_PageReturnedOrClosedIfCreated ==
    /\ [][\A r \in Reqs :
            GivesUp(r) =>
                \/ Rests(rq[r].page)
                \/ /\ ~IsContext /\ rq[r].page = CtxPage
                   /\ rq'[r].pc = "done" /\ rq'[r].result.error \in {"exception", "no_token", "create_chat"}
                   /\ pageSt'[CtxPage] = pageSt[CtxPage]]_vars
    /\ [](\A r \in Reqs : rq[r].pc \in {"idle", "done", "exit"} => rq[r].page = NULL)
\* a page-creating context: the generation request threw, the call is over, and no page
\* is left open outside the pool
C16_Witness ==
    \E r \in Reqs :
        /\ IsContext /\ rq[r].pc = "done" /\ rq[r].result.error = "exception"
        /\ rq[r].attempts = 1
        /\ \A p \in Open : InPool(p)

\* C17 as stated: the pages in existence, idle or held, are never more than the pool size.
C17_HandlesBoundedByPoolSize == Cardinality(Open) <= PAGE_POOL_SIZE
\* C17 amended: the idle pages are never more than the pool size, and a page joins them
\* only while they are fewer; a call that finds no idle page constructs one at once
\* instead of waiting, so that the pages in existence can exceed the pool size.
C17_IdleBoundedByPoolSize ==
    /\ [](Len(pages) <= PAGE_POOL_SIZE)
    /\ [][/\ Len(pages') > Len(pages) => Len(pages) < PAGE_POOL_SIZE /\ Len(pages') = Len(pages) + 1
          /\ \A r \in Reqs :
               (rq'[r].pc = "nav" /\ rq[r].pc # "nav") =>
                   /\ Len(pages) = 0 /\ rq'[r].newPage # NULL
                   /\ IsContext => pageSt[rq'[r].newPage] = "free" /\ pageSt'[rq'[r].newPage] = "new"]_vars
\* two calls at once, each on a page of its own, with a pool of size PAGE_POOL_SIZE
C17_Witness ==
    /\ IsContext
    /\ rq["r1"].page # NULL /\ rq["r2"].page # NULL /\ rq["r1"].page # rq["r2"].page
    /\ Cardinality(Open) > PAGE_POOL_SIZE

\* ------------------------------------------------------------------ the page pool
\* request r calls pagePool.releasePage on the page it holds: after a response that was
\* not a thrown exception (unless a poll follows) and after a poll
Releases(r) ==
    /\ Moves(r) /\ rq[r].page # NULL
    /\ \/ rq[r].pc = "sm_resp" /\ rq[r].resp.kind # "throw" /\ rq'[r].pc # "poll_fetch"
       \/ rq[r].pc = "poll_done"

\* C24: a released page is appended to the idle pages when these are fewer than
\* PAGE_POOL_SIZE, and stays as it is; otherwise the idle pages stay as they are and the
\* page is closed; the idle pages grow by no other step than by one page at a time, and
\* are never more than PAGE_POOL_SIZE.
C24_ReleaseKeepsOrDisposes ==
    /\ [][\A r \in Reqs :
            Releases(r) =>
                LET p == rq[r].page IN
                IF Len(pages) < PAGE_POOL_SIZE
                THEN pages' = Append(pages, p) /\ pageSt'[p] = pageSt[p]
                ELSE pages' = pages /\ pageSt'[p] \in {"closed", "free"}]_vars
    /\ [][Len(pages') <= Len(pages) + 1]_vars
    /\ [](Len(pages) <= PAGE_POOL_SIZE)
\* two calls ran at once on pages 1 and 2 and both were answered: page 2 was released
\* first and is idle, page 1 found the pool full and was closed
C24_Witness ==
    /\ IsContext /\ PAGE_POOL_SIZE = 1
    /\ \A r \in Reqs : rq[r].pc = "done" /\ rq[r].result.tag = "ok"
    /\ pages = <<2>> /\ pageSt[2] = "ready" /\ pageSt[1] = "free"

\* request r is handed a page by a step that is not the end of a navigation: the page
\* comes from the idle pages
Pops(r) == rq[r].page = NULL /\ rq'[r].page # NULL /\ rq[r].pc \notin {"nav", "boot"}
\* request r starts the construction of a page
Constructs(r) == rq[r].pc # "nav" /\ rq'[r].pc = "nav"

Navigated(p) == pageSt[p] \in {"ready", "closed"}

TransportTick(r) ==
    rq[r].pc = "poll_fetch" /\ Moves(r) /\ rq'[r].seen \in {"transport", "throw"}

\* C26: a status check that fails in transport uses up its attempt and decides nothing:
\* before the last attempt the poll waits one interval and then issues the next check, as
\* attempt + 1; at the last attempt it ends in 'timeout' at once, with no delay; the
\* checks issued, failed or not, are never more than maxAttempts and the delays are always
\* one fewer than the attempts begun.
C26_TransportFailureConsumesAttempt ==
    /\ [][\A r \in Reqs :
            /\ TransportTick(r) =>
                   /\ rq'[r].attempt = rq[r].attempt /\ rq'[r].checks = rq[r].checks
                   /\ IF rq[r].attempt < rq[r].maxAttempts
                      THEN /\ rq'[r].pc = "poll_delay" /\ rq'[r].poll = ""
                           /\ rq'[r].delays = rq[r].delays + 1
                      ELSE /\ rq'[r].pc = "poll_done" /\ rq'[r].poll = "timeout"
                           /\ rq'[r].delays = rq[r].delays
            /\ (rq[r].pc = "poll_delay" /\ Moves(r)) =>
                   /\ rq'[r].pc = "poll_fetch" /\ rq'[r].poll = ""
                   /\ rq'[r].attempt = rq[r].attempt + 1 /\ rq'[r].checks = rq[r].checks + 1
                   /\ rq'[r].delays = rq[r].delays]_vars
    /\ [](\A r \in Reqs :
            Polling(r) =>
                /\ rq[r].checks <= rq[r].maxAttempts
                /\ rq[r].delays <= rq[r].maxAttempts - 1 \/ rq[r].maxAttempts = 0
                /\ rq[r].pc = "poll_fetch" => rq[r].delays = rq[r].attempt - 1
                /\ rq[r].pc = "poll_delay" => rq[r].delays = rq[r].attempt)
\* three attempts, the third failed in transport like the two before: 'timeout' after
\* three checks and two delays
C26_Witness ==
    \E r \in Reqs :
        /\ rq[r].pc = "poll_done" /\ rq[r].poll = "timeout" /\ rq[r].seen = "transport"
        /\ rq[r].maxAttempts = 3 /\ rq[r].checks = 3 /\ rq[r].delays = 2

\* the answers of a status check that carry a task document
DataTicks == { t \in Ticks : t.kind = "data" }
\* what the claim lets a document stand for: its task_status, or its status when it has
\* no task_status; completed and success are Completed, failed and error are Failed, any
\* other string and no string at all are Pending
Meaning(tick) ==
    LET st == IF tick.task_status # "" THEN tick.task_status ELSE tick.status
    IN IF st \in {"completed", "success"} THEN "completed"
       ELSE IF st \in {"failed", "error"} THEN "failed"
       ELSE "pending"

Over(r) == rq[r].pc \in {"done", "exit"}

\* C31: when every await of a call returns, the call is over after finitely many steps:
\* it has returned a result or ended the process.  On the way retryCount never exceeds
\* MAX_RETRY_COUNT, no more than MAX_RETRY_COUNT + 1 generation requests are issued, and a
\* poll issues no more than maxAttempts status checks.
C31_EveryCallTerminates ==
    /\ [](\A r \in Reqs :
            /\ rq[r].retryCount <= MAX_RETRY_COUNT /\ rq[r].attempts <= MAX_RETRY_COUNT + 1
            /\ rq[r].checks <= rq[r].maxAttempts /\ rq[r].attempt <= rq[r].maxAttempts + 1)
    /\ \A r \in Reqs : (rq[r].pc # "idle") ~> Over(r)
\* a video call that was rate-limited on every attempt but the last and then polled its
\* task until the checks ran out has returned
C31_Witness ==
    \E r \in Reqs :
        /\ rq[r].pc = "done" /\ rq[r].retryCount = MAX_RETRY_COUNT
        /\ rq[r].result.status = "timeout" /\ rq[r].result.taskId # NULL

\* ------------------------------------------------------------------ tokens in flight
\* C32 as stated: the generation request of a call goes out with the token of the account
\* that the call acquired, whatever other calls acquire in the meantime; so the account
\* that a failure marks (the acquired one) is the one whose token was sent.
C32_SentTokenIsAcquiredToken ==
    \A r \in Reqs :
        (rq[r].pc \in {"sm_fetch", "sm_resp"} /\ rq[r].tokenObj \in Accounts) =>
            rq[r].sentTok = rq[r].tokenObj

\* ------------------------------------------------------------------ the drain
\* some call holds or is navigating the page
Held(p) == \E r \in Reqs : rq[r].page = p \/ rq[r].newPage = p

\* C33 as stated: whatever getPage and releasePage calls run while pagePool.clear drains,
\* no call is handed a page that the drain has closed or is closing, and once the drain
\* has returned no page that left the pool is still open without a call holding it.
C33_DrainHandsOutNothingDisposed ==
    IsContext =>
        /\ \A r \in Reqs : rq[r].page # NULL => pageSt[rq[r].page] # "closed"
        /\ \A r \in Reqs, p \in PageIds :
               (rq[r].pc = "h_shutdown" /\ pageSt[p] = "ready") => (InPool(p) \/ Held(p))

\* ------------------------------------------------------------------ one page per call
\* request r calls pagePool.getPage
Acquires(r) ==
    /\ Moves(r) /\ rq[r].pc \notin {"nav", "boot"}
    /\ rq'[r].pc \in {"nav", "cc_page", "sm_verif"}
\* request r holds no page and constructs none
EmptyHanded(rec) == rec.page = NULL /\ rec.newPage = NULL

\* C34: a call never has more than one page: it calls pagePool.getPage only when it holds
\* none (the page of createChatV2 has been released before sendMessage asks for one), and
\* it holds none when it resolves the token, marks an account, drains the pool, shuts the
\* browser down or starts the next attempt.
C34_OnePagePerCall ==
    /\ [](\A r \in Reqs :
            /\ ~(rq[r].page # NULL /\ rq[r].newPage # NULL)
            /\ rq[r].pc \in {"sm_token", "sm_auth", "sm_extract", "h_import1", "h_import2",
                             "h_clear", "h_shutdown", "h_init"} => EmptyHanded(rq[r]))
    /\ [][\A r \in Reqs :
            /\ Acquires(r) => EmptyHanded(rq[r])
            /\ (Moves(r) /\ (acct' # acct \/ Retried(r))) => EmptyHanded(rq'[r])]_vars
\* a call whose second attempt failed too is draining the pool, in which the page of that
\* attempt is idle
C34_Witness ==
    \E r \in Reqs :
        /\ rq[r].pc = "h_clear" /\ rq[r].retryCount >= 1 /\ EmptyHanded(rq[r])
        /\ Len(pages) > 0

\* ------------------------------------------------------------------ failed navigation
\* the navigation of the page that request r constructed throws
NavigationThrows(r) == rq[r].pc = "nav" /\ rq'[r].pc = "done"

\* C35 as stated: when the navigation of a page newly constructed from a browser context
\* throws, the call returns an error result and the page is closed; no open page is
\* outside the idle pages without a call holding it.
C35_FailedNavigationDisposes ==
    [][\A r \in Reqs :
         (IsContext /\ NavigationThrows(r)) =>
             /\ rq'[r].result.tag = "error"
             /\ pageSt'[rq[r].newPage] \notin {"new", "ready"}
             /\ \A p \in PageIds :
                    pageSt'[p] \in {"new", "ready"} =>
                        \/ \E i \in 1..Len(pages') : pages'[i] = p
                        \/ \E o \in Reqs : rq'[o].page = p \/ rq'[o].newPage = p]_vars

\* ------------------------------------------------------------------ extractAuthToken
\* What `localStorage.getItem('token')` may give (chat.js:155): null, the empty string, or
\* the browser's token.
EMPTY == 0 - 1
Reads == {NULL, EMPTY, BROWSER}
truthy(tok) == tok \notin {NULL, EMPTY}

\* `if (authToken && !forceRefresh) return authToken;` (chat.js:147)
extractAuthToken_cached(cache, forceRefresh) == truthy(cache) /\ ~forceRefresh
\* `if (newToken) { authToken = newToken; ... }` (chat.js:158-159): the cached token after
\* the read
extractAuthToken_cache_always(cache, newToken) == newToken
extractAuthToken_cache(cache, newToken) == IF truthy(newToken) THEN newToken ELSE cache
\* the value returned after the read (chat.js:158-165)
extractAuthToken_return(newToken) == IF truthy(newToken) THEN newToken ELSE NULL
\* what a call of extractAuthToken resolves to
Extracted(tok) == [NoResult EXCEPT !.tag = "token", !.token = tok]

\* A caller invokes extractAuthToken(context, forceRefresh) (chat.js:146-151): the cached
\* token is returned at once, or a page is obtained from the context and its navigation
\* started.
ExtractCall(r, forceRefresh) ==
    /\ ~exited /\ rq[r].pc = "idle"
    /\ LET rec == [IdleReq EXCEPT !.forceRefresh = forceRefresh] IN
       IF extractAuthToken_cached(authToken, forceRefresh)
       THEN /\ rq' = [rq EXCEPT ![r] = Finish(rec, Extracted(authToken))]
            /\ pageSt' = pageSt
       ELSE /\ ~IsContext \/ FreePages # {}
            /\ rq' = [rq EXCEPT ![r] = [rec EXCEPT !.newPage = NewPageId, !.pc = "x_goto"]]
            /\ pageSt' = IF IsContext THEN [pageSt EXCEPT ![NewPageId] = "new"] ELSE pageSt
    /\ UNCHANGED <<authToken, pages, ctxShape, browserUp, authStatus, acct, now, exited>>

\* the catch blocks of extractAuthToken (chat.js:166-173): the page is closed when the
\* context is one that creates pages, and null is returned
extractFailed(r) ==
    /\ rq' = [rq EXCEPT ![r] = Finish(@, Extracted(NULL))]
    /\ pageSt' = Collect(IF IsContext THEN close(pageSt, rq[r].newPage) ELSE pageSt,
                         pages, rq')
    /\ authToken' = authToken

\* extractAuthToken after `await page.goto(...)` (chat.js:152-153)
ExtractNavigate(r, ok) ==
    /\ ~exited /\ rq[r].pc = "x_goto"
    /\ IF gotoResolves(ok, pageSt[rq[r].newPage])
       THEN /\ rq' = [rq EXCEPT ![r].pc = "x_delay"]
            /\ pageSt' = [pageSt EXCEPT ![rq[r].newPage] = "ready"]
            /\ authToken' = authToken
       ELSE extractFailed(r)
    /\ UNCHANGED <<pages, ctxShape, browserUp, authStatus, acct, now, exited>>

\* extractAuthToken after `await delay(RETRY_DELAY)` (chat.js:153-155)
ExtractDelay(r) ==
    /\ ~exited /\ rq[r].pc = "x_delay"
    /\ rq' = [rq EXCEPT ![r].pc = "x_read"]
    /\ UNCHANGED shared

\* extractAuthToken after `await page.evaluate(...)` (chat.js:155-165): with a context
\* that creates pages the page is closed first, which is one more await
ExtractRead(r, tok, thrown) ==
    /\ ~exited /\ rq[r].pc = "x_read"
    /\ IF thrown THEN extractFailed(r)
       ELSE IF IsContext
       THEN /\ rq' = [rq EXCEPT ![r] = [@ EXCEPT !.newToken = tok, !.pc = "x_close"]]
            /\ pageSt' = close(pageSt, rq[r].newPage)
            /\ authToken' = authToken
       ELSE /\ rq' = [rq EXCEPT ![r] = Finish([@ EXCEPT !.newToken = tok],
                                              Extracted(extractAuthToken_return(tok)))]
            /\ pageSt' = pageSt
            /\ authToken' = extractAuthToken_cache(authToken, tok)
    /\ UNCHANGED <<pages, ctxShape, browserUp, authStatus, acct, now, exited>>

\* extractAuthToken after `await page.close()` (chat.js:156-165)
ExtractClose(r, thrown) ==
    /\ ~exited /\ rq[r].pc = "x_close"
    /\ IF thrown THEN extractFailed(r)
       ELSE /\ rq' = [rq EXCEPT ![r] =
                        Finish(@, Extracted(extractAuthToken_return(rq[r].newToken)))]
            /\ pageSt' = Collect(pageSt, pages, rq')
            /\ authToken' = extractAuthToken_cache(authToken, rq[r].newToken)
    /\ UNCHANGED <<pages, ctxShape, browserUp, authStatus, acct, now, exited>>

\* Two callers of extractAuthToken at once, with and without forceRefresh, on a module
\* whose cached token is absent, an account's, or the browser's.
ExtractStep(r) ==
    \/ \E forceRefresh \in BOOLEAN : ExtractCall(r, forceRefresh)
    \/ \E ok \in BOOLEAN : ExtractNavigate(r, ok)
    \/ ExtractDelay(r)
    \/ \E tok \in Reads, thrown \in BOOLEAN : ExtractRead(r, tok, thrown)
    \/ \E thrown \in BOOLEAN : ExtractClose(r, thrown)
ExtractInit ==
    /\ authToken \in {NULL} \cup Accounts \cup {BROWSER}
    /\ pages = <<>>
    /\ ctxShape \in {"context", "page"}
    /\ pageSt = [p \in PageIds |-> IF ctxShape = "page" /\ p = CtxPage THEN "new" ELSE "free"]
    /\ browserUp = TRUE
    /\ authStatus = TRUE
    /\ acct = [a \in Accounts |-> [invalid |-> FALSE, until |-> 0]]
    /\ now = 0
    /\ exited = FALSE
    /\ rq = [r \in Reqs |-> IdleReq]
NextExtract == ExtractStep("r1") \/ ExtractStep("r2")
SpecExtract == ExtractInit /\ [][NextExtract]_vars

\* request r is inside extractAuthToken, past its first await
Extracting(r) == rq[r].pc \in {"x_goto", "x_delay", "x_read", "x_close"}

\* C36: a call of extractAuthToken with a cached token and forceRefresh false returns the
\* cached token at once: no page is obtained or navigated and the cache stays as it is;
\* otherwise it navigates.  A call that returns null leaves the cached token as it is, and
\* the cached token is overwritten only with the token just read, which is then neither
\* null nor empty and is the value returned.
C36_ExtractFrame ==
    [][\A r \in Reqs :
         /\ (rq[r].pc = "idle" /\ Moves(r)) =>
                /\ authToken' = authToken
                /\ IF truthy(authToken) /\ ~rq'[r].forceRefresh
                   THEN /\ rq'[r].pc = "done" /\ rq'[r].result.token = authToken
                        /\ pageSt' = pageSt /\ rq'[r].newToken = NULL
                   ELSE rq'[r].pc = "x_goto"
         /\ (Extracting(r) /\ Moves(r)) =>
                /\ (rq'[r].pc = "done" /\ rq'[r].result.token = NULL) =>
                       authToken' = authToken
                /\ authToken' # authToken =>
                       /\ rq'[r].pc = "done" /\ truthy(rq'[r].newToken)
                       /\ authToken' = rq'[r].newToken
                       /\ rq'[r].result.token = authToken'
                /\ rq'[r].pc = "done" =>
                       rq'[r].result.token \in {NULL, rq'[r].newToken} \ {EMPTY}]_vars
\* one call was given the cached token of an account without reading anything, and another,
\* forced to refresh, read an empty token and returned null: the cache is still the
\* account's token
C36_Witness ==
    \E r, o \in Reqs :
        /\ rq[r].pc = "done" /\ ~rq[r].forceRefresh /\ rq[r].newToken = NULL
        /\ rq[r].result.token \in Accounts /\ authToken = rq[r].result.token
        /\ rq[o].pc = "done" /\ rq[o].forceRefresh /\ rq[o].newToken = EMPTY
        /\ rq[o].result.tag = "token" /\ rq[o].result.token = NULL

====
